---- MODULE Spec2Model ----
(***************************************************************************)
(* Seating optimizer of bordplassering: the multi-start driver             *)
(* (optimizeSeating), its route constructor, 2-opt refiner and pair        *)
(* enforcement, and the table mapper (assignToTables) with its pair        *)
(* repair.  Source: src/unnamed/part_001 (the current seating library).    *)
(*                                                                         *)
(* Conventions.  Participant indices and array positions are 0-based as in *)
(* the source; a route or a seat list is a TLA+ sequence, read through     *)
(* At(s, p) with a 0-based position p.  Distances are the source's values  *)
(* multiplied by Scale, so that every distance the two distance functions  *)
(* can return on the theme sets of the model, and the 0.5 isolation        *)
(* penalty, are integers.  `undefined`, a failed findIndex/indexOf and a   *)
(* `next` that was never set are all -1, as in the source where it uses    *)
(* -1, and as Undefined where the source has `undefined`.                  *)
(***************************************************************************)
EXTENDS Integers, Sequences, FiniteSets, TLC

VARIABLES
    people,             \* Person[]: 0..n-1 -> [name, themes]
    attempts,           \* argument of optimizeSeating
    distanceFunction,   \* "commonality" | "avg_distance"
    optimizationMode,   \* "poor_connections" | "distance"
    constantPairs,      \* Map<number, number> in insertion order: <<key, value>> entries
    distMatrix,         \* number[][] (scaled)
    attempt,            \* loop counter of optimizeSeating
    order,              \* the route the current call works on
    route0,             \* the route twoOpt was called with
    bestOverallOrder,   \* number[] | null
    bestOverallScore,   \* number, starts at Infinity
    history,            \* one [score, order] record per finished attempt
    result,             \* the returned SeatingResult (order, score)
    tableSizes,         \* argument of assignToTables
    tables,             \* Table[]: sequence of seat lists
    pairNo,             \* loop position in CONSTANT_PAIRS_NAMES during repair
    progress,           \* the calls of onProgress so far: <<attempt, score>> each
    statistics,         \* SeatingStatistics[] of the returned TableAssignment
    distance,           \* the last call of a distance function and what it returned
    aliased,            \* bestOverallOrder and order refer to one array object
    pc                  \* position in the running call

vars == <<people, attempts, distanceFunction, optimizationMode, constantPairs,
          distMatrix, attempt, order, route0, bestOverallOrder, bestOverallScore,
          history, result, tableSizes, tables, pairNo, progress, statistics,
          distance, aliased, pc>>

-----------------------------------------------------------------------------
(* Bounds of the model *)

\* largest participant list handed to optimizeSeating
MaxN == 4
\* largest attempt count handed to optimizeSeating
MaxAttempts == 2
\* largest participant list handed to assignToTables / twoOpt on its own
MaxGuests == 5
\* largest number of tables and largest declared table size
MaxTables == 2
MaxTableSize == 4
\* number of distinct themes in the theme sets handed to a distance function on its own
MaxThemes == 5
\* largest participant list handed to nearestNeighborWithCommonThemes on its own
MaxRoute == 4

-----------------------------------------------------------------------------
(* Values *)

\* a common multiple of every denominator the two distance functions, and the
\* halving of the isolation penalty, can produce on theme sets over MaxThemes + 1
\* themes
Scale == 4 * 3 * 5
Infinity == 1000000
Undefined == 0 - 1
NullOrder == << 0 - 1 >>
Null == 0 - 1
\* no distance function has been called
NoCall == [func |-> "none", a |-> {}, b |-> {}, d |-> 0 - 1]

\* CONSTANT_PAIRS_NAMES (the A-ring of the third name is written A)
CONSTANT_PAIRS_NAMES ==
    << <<"Majbritt Jensen", "Boris Sidorevitj">>,
       <<"Ragnhild As Harbo", "Janne Rygh">> >>

Min(a, b) == IF a < b THEN a ELSE b
Abs(x) == IF x < 0 THEN 0 - x ELSE x
Range(s) == { s[k] : k \in 1..Len(s) }

\* 0-based array access, indexOf, splice(p, 1) and splice(p, 0, x)
At(s, p) == s[p + 1]
IndexOf(s, x) ==
    IF \E k \in 1..Len(s) : s[k] = x
    THEN (CHOOSE k \in 1..Len(s) : s[k] = x /\ \A l \in 1..(k - 1) : s[l] # x) - 1
    ELSE 0 - 1
RemoveAt(s, p) == SubSeq(s, 1, p) \o SubSeq(s, p + 2, Len(s))
InsertAt(s, p, x) ==
    LET q == IF p > Len(s) THEN Len(s) ELSE p
    IN  SubSeq(s, 1, q) \o <<x>> \o SubSeq(s, q + 1, Len(s))

\* number of participants: people.length
NumPeople(ppl) == Cardinality(DOMAIN ppl)

-----------------------------------------------------------------------------
(* Map<number, number> with JavaScript's insertion order *)

MapHas(m, k) == \E e \in 1..Len(m) : m[e][1] = k
MapGet(m, k) ==
    IF MapHas(m, k) THEN m[CHOOSE e \in 1..Len(m) : m[e][1] = k][2] ELSE Undefined
MapSet(m, k, v) ==
    IF MapHas(m, k)
    THEN [e \in 1..Len(m) |-> IF m[e][1] = k THEN <<k, v>> ELSE m[e]]
    ELSE Append(m, <<k, v>>)

-----------------------------------------------------------------------------
(* Affinity model *)

\* commonalityDistance without Math.min(inter, 4)
commonalityDistanceUncapped(a, b) ==
    LET inter == Cardinality(a \cap b)
    IN  ((4 - inter) * Scale) \div 4

commonalityDistance(a, b) ==
    LET inter == Cardinality(a \cap b)
        commonCount == Min(inter, 4)
    IN  ((4 - commonCount) * Scale) \div 4

\* avgDistance that returns 0 for `union === 0`
avgDistanceEmptyIsZero(a, b) ==
    LET inter == Cardinality(a \cap b)
        union == Cardinality(a \cup b)
    IN  IF union = 0 THEN 0 ELSE Scale - ((inter * Scale) \div union)

avgDistance(a, b) ==
    LET inter == Cardinality(a \cap b)
        union == Cardinality(a \cup b)
    IN  IF union = 0 THEN Scale ELSE Scale - ((inter * Scale) \div union)

getDistanceFunction(type, a, b) ==
    IF type = "commonality" THEN commonalityDistance(a, b) ELSE avgDistance(a, b)

hasCommonThemes(personA, personB) == personA.themes \cap personB.themes # {}

-----------------------------------------------------------------------------
(* Pair constraint registry *)

FindIndex(ppl, name) ==
    IF \E i \in DOMAIN ppl : ppl[i].name = name
    THEN CHOOSE i \in DOMAIN ppl :
            ppl[i].name = name /\ \A l \in DOMAIN ppl : ppl[l].name = name => i <= l
    ELSE 0 - 1

RECURSIVE findConstantPairsFrom(_, _, _)
RECURSIVE findConstantPairsFromEither(_, _, _)
\* findConstantPairsFrom with `||` for `&&` in the test of the two indices
findConstantPairsFromEither(ppl, k, pairMap) ==
    IF k > Len(CONSTANT_PAIRS_NAMES) THEN pairMap
    ELSE LET idx1 == FindIndex(ppl, CONSTANT_PAIRS_NAMES[k][1])
             idx2 == FindIndex(ppl, CONSTANT_PAIRS_NAMES[k][2])
         IN  findConstantPairsFromEither(ppl, k + 1,
                IF idx1 # 0 - 1 \/ idx2 # 0 - 1
                THEN MapSet(MapSet(pairMap, idx1, idx2), idx2, idx1)
                ELSE pairMap)

findConstantPairsFrom(ppl, k, pairMap) ==
    IF k > Len(CONSTANT_PAIRS_NAMES) THEN pairMap
    ELSE LET idx1 == FindIndex(ppl, CONSTANT_PAIRS_NAMES[k][1])
             idx2 == FindIndex(ppl, CONSTANT_PAIRS_NAMES[k][2])
         IN  findConstantPairsFrom(ppl, k + 1,
                IF idx1 # 0 - 1 /\ idx2 # 0 - 1
                THEN MapSet(MapSet(pairMap, idx1, idx2), idx2, idx1)
                ELSE pairMap)

\* findConstantPairs whose loop starts at the second declared pair
findConstantPairsSkipsFirst(ppl) == findConstantPairsFrom(ppl, 2, << >>)

findConstantPairs(ppl) == findConstantPairsFrom(ppl, 1, << >>)

\* createDistanceMatrix without the branch for constant pairs
createDistanceMatrixNoPairs(ppl, type, cp) ==
    [i \in DOMAIN ppl |-> [j \in DOMAIN ppl |->
        IF i = j THEN 0
        ELSE LET lo == Min(i, j)
                 hi == IF i < j THEN j ELSE i
             IN  getDistanceFunction(type, ppl[lo].themes, ppl[hi].themes)]]

createDistanceMatrix(ppl, type, cp) ==
    [i \in DOMAIN ppl |-> [j \in DOMAIN ppl |->
        IF i = j THEN 0
        ELSE LET lo == Min(i, j)
                 hi == IF i < j THEN j ELSE i
             IN  IF MapGet(cp, lo) = hi THEN 0
                 ELSE getDistanceFunction(type, ppl[lo].themes, ppl[hi].themes)]]

-----------------------------------------------------------------------------
(* Route constructor *)

\* ScanNearest with `<=` for `<`: the last of the nearest is kept
RECURSIVE ScanNearestLast(_, _, _, _, _, _, _)
ScanNearestLast(dm, ppl, visited, current, needCommon, j, acc) ==
    IF j >= Cardinality(DOMAIN dm) THEN acc
    ELSE LET take == /\ j \notin visited
                     /\ (needCommon => hasCommonThemes(ppl[current], ppl[j]))
                     /\ dm[current][j] <= acc.bestDist
         IN  ScanNearestLast(dm, ppl, visited, current, needCommon, j + 1,
                IF take THEN [next |-> j, bestDist |-> dm[current][j]] ELSE acc)

\* one `for (let j = 0; j < n; j++)` scan of the constructor: acc is (next, bestDist)
RECURSIVE ScanNearest(_, _, _, _, _, _, _)
ScanNearest(dm, ppl, visited, current, needCommon, j, acc) ==
    IF j >= Cardinality(DOMAIN dm) THEN acc
    ELSE LET take == /\ j \notin visited
                     /\ (needCommon => hasCommonThemes(ppl[current], ppl[j]))
                     /\ dm[current][j] < acc.bestDist
         IN  ScanNearest(dm, ppl, visited, current, needCommon, j + 1,
                IF take THEN [next |-> j, bestDist |-> dm[current][j]] ELSE acc)

\* the fallback scan: the first unvisited index, or -1
FirstUnvisited(dm, visited) ==
    LET un == { j \in DOMAIN dm : j \notin visited }
    IN  IF un = {} THEN 0 - 1 ELSE CHOOSE j \in un : \A l \in un : j <= l

\* NextParticipant without `!visited.has(pairIdx)`
NextParticipantRevisits(dm, ppl, cp, visited, current) ==
    LET none == [next |-> 0 - 1, bestDist |-> Infinity]
        pairIdx == MapGet(cp, current)
        picked ==
            IF pairIdx # Undefined
            THEN [next |-> pairIdx, bestDist |-> 0]
            ELSE LET common == ScanNearest(dm, ppl, visited, current, TRUE, 0, none)
                 IN  IF common.next = 0 - 1
                     THEN ScanNearest(dm, ppl, visited, current, FALSE, 0, common)
                     ELSE common
    IN  IF picked.next = 0 - 1 THEN FirstUnvisited(dm, visited) ELSE picked.next

\* NextChoice without the branch for the constant pair (priority 1)
NextChoiceIgnoresPairs(dm, ppl, cp, visited, current) ==
    LET none == [next |-> 0 - 1, bestDist |-> Infinity]
        common == ScanNearest(dm, ppl, visited, current, TRUE, 0, none)
    IN  IF common.next # 0 - 1 THEN [next |-> common.next, rule |-> "common"]
        ELSE LET nearest == ScanNearest(dm, ppl, visited, current, FALSE, 0, common)
             IN  IF nearest.next # 0 - 1 THEN [next |-> nearest.next, rule |-> "nearest"]
                 ELSE [next |-> FirstUnvisited(dm, visited), rule |-> "fallback"]

\* NextChoice with `let bestDist = 0` for `let bestDist = Infinity`
NextChoiceFromZero(dm, ppl, cp, visited, current) ==
    LET none == [next |-> 0 - 1, bestDist |-> 0]
        pairIdx == MapGet(cp, current)
    IN  IF pairIdx # Undefined /\ pairIdx \notin visited
        THEN [next |-> pairIdx, rule |-> "pair"]
        ELSE LET common == ScanNearest(dm, ppl, visited, current, TRUE, 0, none)
             IN  IF common.next # 0 - 1 THEN [next |-> common.next, rule |-> "common"]
                 ELSE LET nearest == ScanNearest(dm, ppl, visited, current, FALSE, 0, common)
                      IN  IF nearest.next # 0 - 1
                          THEN [next |-> nearest.next, rule |-> "nearest"]
                          ELSE [next |-> FirstUnvisited(dm, visited), rule |-> "fallback"]

\* one pass of the while loop: the value of `next` at line 254 (-1 when nothing
\* is left) and the branch that set it
NextChoice(dm, ppl, cp, visited, current) ==
    LET none == [next |-> 0 - 1, bestDist |-> Infinity]
        pairIdx == MapGet(cp, current)
    IN  IF pairIdx # Undefined /\ pairIdx \notin visited
        THEN [next |-> pairIdx, rule |-> "pair"]
        ELSE LET common == ScanNearest(dm, ppl, visited, current, TRUE, 0, none)
             IN  IF common.next # 0 - 1 THEN [next |-> common.next, rule |-> "common"]
                 ELSE LET nearest == ScanNearest(dm, ppl, visited, current, FALSE, 0, common)
                      IN  IF nearest.next # 0 - 1
                          THEN [next |-> nearest.next, rule |-> "nearest"]
                          ELSE [next |-> FirstUnvisited(dm, visited), rule |-> "fallback"]

\* the participant the loop body appends after `current`, or -1
NextParticipant(dm, ppl, cp, visited, current) ==
    NextChoice(dm, ppl, cp, visited, current).next

RECURSIVE NearestNeighborLoop(_, _, _, _, _)
NearestNeighborLoop(dm, ppl, cp, route, current) ==
    IF Len(route) >= Cardinality(DOMAIN dm) THEN route
    ELSE LET next == NextParticipant(dm, ppl, cp, Range(route), current)
         IN  IF next = 0 - 1 THEN route
             ELSE NearestNeighborLoop(dm, ppl, cp, Append(route, next), next)

nearestNeighborWithCommonThemes(dm, ppl, cp, startIdx) ==
    NearestNeighborLoop(dm, ppl, cp, <<startIdx>>, startIdx)

-----------------------------------------------------------------------------
(* Local search refiner *)

\* the neighbour test the source repeats: adjacent positions, or first and last
areNeighbors(pos1, pos2, n) ==
    \/ Abs(pos1 - pos2) = 1
    \/ (pos1 = 0 /\ pos2 = n - 1)
    \/ (pos2 = 0 /\ pos1 = n - 1)

\* wouldBreakConstantPair that returns false for every candidate
wouldBreakNever(route, i, j, cp) == FALSE

wouldBreakConstantPair(route, i, j, cp) ==
    IF Len(cp) = 0 THEN FALSE
    ELSE LET n == Len(route)
         IN  \E e \in 1..Len(cp) :
                LET pos1 == IndexOf(route, cp[e][1])
                    pos2 == IndexOf(route, cp[e][2])
                    pos1InSegment == pos1 >= i /\ pos1 <= j
                    pos2InSegment == pos2 >= i /\ pos2 <= j
                    newPos1 == j - (pos1 - i)
                    newPos2 == j - (pos2 - i)
                IN  /\ pos1 # 0 - 1
                    /\ pos2 # 0 - 1
                    /\ areNeighbors(pos1, pos2, n)
                    /\ \/ pos1InSegment # pos2InSegment
                       \/ /\ pos1InSegment
                          /\ pos2InSegment
                          /\ ~areNeighbors(newPos1, newPos2, n)

\* isolationPenalty of the candidate (i, j): 0.5 per new boundary pair without a common theme
isolationPenalty(route, ppl, i, j) ==
    (IF hasCommonThemes(ppl[At(route, i - 1)], ppl[At(route, j)]) THEN 0 ELSE Scale \div 2)
    + (IF hasCommonThemes(ppl[At(route, i)], ppl[At(route, j + 1)]) THEN 0 ELSE Scale \div 2)

\* AcceptsSwap with the comparison of `before` and `after` turned round
AcceptsSwapWorse(route, dm, ppl, cp, i, j) ==
    /\ ~wouldBreakConstantPair(route, i, j, cp)
    /\ LET before == dm[At(route, i - 1)][At(route, i)] + dm[At(route, j)][At(route, j + 1)]
           after == dm[At(route, i - 1)][At(route, j)] + dm[At(route, i)][At(route, j + 1)]
       IN  before < after

\* AcceptsSwap with `<=` for `<` in both tests of the cost
AcceptsSwapOnTies(route, dm, ppl, cp, i, j) ==
    /\ ~wouldBreakConstantPair(route, i, j, cp)
    /\ LET before == dm[At(route, i - 1)][At(route, i)] + dm[At(route, j)][At(route, j + 1)]
           after == dm[At(route, i - 1)][At(route, j)] + dm[At(route, i)][At(route, j + 1)]
       IN  /\ after <= before
           /\ after + isolationPenalty(route, ppl, i, j) <= before

\* AcceptsSwap without the isolation penalty: every candidate with after < before
AcceptsSwapWithoutPenalty(route, dm, ppl, cp, i, j) ==
    /\ ~wouldBreakConstantPair(route, i, j, cp)
    /\ LET before == dm[At(route, i - 1)][At(route, i)] + dm[At(route, j)][At(route, j + 1)]
           after == dm[At(route, i - 1)][At(route, j)] + dm[At(route, i)][At(route, j + 1)]
       IN  after < before

\* the candidate (i, j) is reversed by twoOpt
AcceptsSwap(route, dm, ppl, cp, i, j) ==
    /\ ~wouldBreakConstantPair(route, i, j, cp)
    /\ LET before == dm[At(route, i - 1)][At(route, i)] + dm[At(route, j)][At(route, j + 1)]
           after == dm[At(route, i - 1)][At(route, j)] + dm[At(route, i)][At(route, j + 1)]
       IN  /\ after < before
           /\ after + isolationPenalty(route, ppl, i, j) < before

\* the cut points the two for loops of twoOpt visit
CutPoints(n) == { c \in (1..(n - 3)) \X (2..(n - 2)) : c[1] < c[2] }

\* the candidates a full scan would accept, and the first of them in scan order
Improving(route, dm, ppl, cp) ==
    { c \in CutPoints(Len(route)) : AcceptsSwap(route, dm, ppl, cp, c[1], c[2]) }
FirstImproving(route, dm, ppl, cp) ==
    LET S == Improving(route, dm, ppl, cp)
    IN  CHOOSE c \in S : \A d \in S : c[1] < d[1] \/ (c[1] = d[1] /\ c[2] <= d[2])

\* route.slice(i, j + 1).reverse() spliced back at i
ReverseSegment(route, i, j) ==
    [k \in 1..Len(route) |->
        IF k - 1 >= i /\ k - 1 <= j THEN At(route, j - ((k - 1) - i)) ELSE route[k]]

-----------------------------------------------------------------------------
(* Pair enforcement on a flat route *)

\* the body of the loop of enforceConstantPairs for one map entry idx1 -> idx2
EnforceEntry(newRoute, idx1, idx2) ==
    LET n == Len(newRoute)
        pos1 == IndexOf(newRoute, idx1)
        pos2 == IndexOf(newRoute, idx2)
    IN  IF pos1 = 0 - 1 \/ pos2 = 0 - 1 THEN newRoute
        ELSE IF areNeighbors(pos1, pos2, n) THEN newRoute
        ELSE IF pos1 < pos2
             THEN LET removed == RemoveAt(newRoute, pos2)
                      newPos1 == IndexOf(removed, idx1)
                  IN  InsertAt(removed, newPos1 + 1, idx2)
             ELSE LET removed == RemoveAt(newRoute, pos1)
                      newPos2 == IndexOf(removed, idx2)
                  IN  InsertAt(removed, newPos2 + 1, idx1)

RECURSIVE EnforceFrom(_, _, _)
EnforceFrom(newRoute, cp, e) ==
    IF e > Len(cp) THEN newRoute
    ELSE EnforceFrom(EnforceEntry(newRoute, cp[e][1], cp[e][2]), cp, e + 1)

enforceConstantPairs(route, cp) ==
    IF Len(cp) = 0 THEN route ELSE EnforceFrom(route, cp, 1)

-----------------------------------------------------------------------------
(* Scoring *)

\* totalCommonThemes that takes the last position as the neighbour before the
\* first and the first as the neighbour after the last
totalCommonThemesRing(route, ppl, i) ==
    LET person == ppl[At(route, i)]
        n == Len(route)
    IN  (person.themes \cap ppl[At(route, (i + n - 1) % n)].themes)
        \cup (person.themes \cap ppl[At(route, (i + 1) % n)].themes)

\* totalCommonThemes of route position i
totalCommonThemes(route, ppl, i) ==
    LET person == ppl[At(route, i)]
    IN  (IF i > 0 THEN person.themes \cap ppl[At(route, i - 1)].themes ELSE {})
        \cup (IF i < Len(route) - 1 THEN person.themes \cap ppl[At(route, i + 1)].themes ELSE {})

countPoorConnections(route, ppl) ==
    Cardinality({ i \in 0..(Len(route) - 1) :
                    Cardinality(totalCommonThemes(route, ppl, i)) <= 2 })

RECURSIVE CostFrom(_, _, _)
CostFrom(route, dm, i) ==
    IF i >= Len(route) - 1 THEN 0
    ELSE dm[At(route, i)][At(route, i + 1)] + CostFrom(route, dm, i + 1)

calculateTotalCost(route, dm) == CostFrom(route, dm, 0)

\* `person.themes` on a route entry that is no participant throws a TypeError
ScoringThrows(route, ppl, mode) ==
    mode # "distance" /\ \E k \in 1..Len(route) : route[k] \notin DOMAIN ppl

ScoreOf(route, ppl, dm, mode) ==
    IF mode = "distance" THEN calculateTotalCost(route, dm)
    ELSE countPoorConnections(route, ppl)

-----------------------------------------------------------------------------
(* Inputs *)

\* theme sets a participant can have: no theme, two themes, four themes.  Every
\* distance either function returns on them is 0, 1/2 or 1, which the source's
\* floating-point arithmetic adds and compares exactly.
ThemeSets == { {}, {1, 2}, {1, 2, 3, 4} }

PairNames == { CONSTANT_PAIRS_NAMES[k][s] : k \in 1..Len(CONSTANT_PAIRS_NAMES), s \in 1..2 }
GuestNames == << "Guest 0", "Guest 1", "Guest 2", "Guest 3",
                 "Guest 4", "Guest 5", "Guest 6", "Guest 7" >>

\* name lists of length n with unique names: a participant is one of the four
\* people CONSTANT_PAIRS_NAMES names, or a guest whose name occurs nowhere else
AllRosters(n) ==
    { [i \in 0..(n - 1) |-> IF r[i] = "guest" THEN GuestNames[i + 1] ELSE r[i]] :
        r \in { q \in [0..(n - 1) -> PairNames \cup {"guest"}] :
                  \A i, l \in 0..(n - 1) : (i # l /\ q[i] # "guest") => q[i] # q[l] } }

\* the name lists in which every declared pair is present with both names or with none
Rosters(n) ==
    { r \in AllRosters(n) :
        \A k \in 1..Len(CONSTANT_PAIRS_NAMES) :
            (\E i \in 0..(n - 1) : r[i] = CONSTANT_PAIRS_NAMES[k][1])
            <=> (\E i \in 0..(n - 1) : r[i] = CONSTANT_PAIRS_NAMES[k][2]) }

PeopleLists(n) ==
    { [i \in 0..(n - 1) |-> [name |-> names[i], themes |-> themes[i]]] :
        names \in Rosters(n), themes \in [0..(n - 1) -> ThemeSets] }

Routes(n) ==
    { f \in [1..n -> 0..(n - 1)] : \A a, b \in 1..n : a # b => f[a] # f[b] }

-----------------------------------------------------------------------------
(* optimizeSeating *)

\* Math.floor(Math.random() * n)
StartIndices(n) == IF n = 0 THEN {0} ELSE 0..(n - 1)

\* Improves with `<=` for `<`
ImprovesOrTies(score, bestScore) == score <= bestScore

\* `if (score < bestOverallScore)`
Improves(score, bestScore) == score < bestScore

\* KeptOrder with `bestOverallOrder = order` outside the `if`
KeptOrderAlways(score, ord, bestScore, bestOrder) == ord

\* onProgressCall that reports the 0-based loop counter
onProgressCallZeroBased(att, score) == << att, score >>

\* the arguments of `onProgress(attempt + 1, score)`
onProgressCall(att, score) == << att + 1, score >>

\* RouteIsFresh for a constructor that fills the array of the attempt before
RouteIsReused(wasAliased) == wasAliased

\* line 206: the constructor builds its route in a new array, which
\* bestOverallOrder does not refer to; the value is whether it does
RouteIsFresh(wasAliased) == FALSE

\* bestOverallOrder after the attempt's comparison
KeptOrder(score, ord, bestScore, bestOrder) ==
    IF Improves(score, bestScore) THEN ord ELSE bestOrder

Init ==
    /\ \E n \in 0..MaxN : people \in PeopleLists(n)
    /\ attempts \in 1..MaxAttempts
    /\ distanceFunction \in {"commonality", "avg_distance"}
    /\ optimizationMode \in {"poor_connections", "distance"}
    /\ constantPairs = findConstantPairs(people)
    /\ distMatrix = createDistanceMatrix(people, distanceFunction, constantPairs)
    /\ attempt = 0
    /\ order = << >>
    /\ route0 = << >>
    /\ bestOverallOrder = NullOrder
    /\ bestOverallScore = Infinity
    /\ history = << >>
    /\ result = [order |-> NullOrder, score |-> Infinity]
    /\ tableSizes = << >>
    /\ tables = << >>
    /\ pairNo = 0
    /\ progress = << >>
    /\ statistics = << >>
    /\ distance = NoCall
    /\ aliased = FALSE
    /\ pc = "attempt"

\* lines 458-459: draw the start index and build the route
Construct ==
    /\ pc = "attempt"
    /\ attempt < attempts
    /\ \E startIdx \in StartIndices(NumPeople(people)) :
          order' = nearestNeighborWithCommonThemes(distMatrix, people, constantPairs, startIdx)
    /\ route0' = order'
    /\ aliased' = RouteIsFresh(aliased)
    /\ bestOverallOrder' = IF aliased' THEN order' ELSE bestOverallOrder
    /\ pc' = "twoOpt"
    /\ UNCHANGED <<people, progress, statistics, distance,
                   attempts, distanceFunction, optimizationMode, constantPairs,
                   distMatrix, attempt, bestOverallScore, history,
                   result, tableSizes, tables, pairNo>>

\* twoOpt: one pass of the while loop that finds an improving candidate and
\* reverses it in place (line 350): whatever refers to the array sees the reversal
TwoOptSwap ==
    /\ pc = "twoOpt"
    /\ \E c \in Improving(order, distMatrix, people, constantPairs) :
          /\ c = FirstImproving(order, distMatrix, people, constantPairs)
          /\ order' = ReverseSegment(order, c[1], c[2])
    /\ bestOverallOrder' = IF aliased THEN order' ELSE bestOverallOrder
    /\ UNCHANGED <<people, aliased, progress, statistics, distance,
                   attempts, distanceFunction, optimizationMode, constantPairs,
                   distMatrix, attempt, route0, bestOverallScore,
                   history, result, tableSizes, tables, pairNo, pc>>

\* twoOpt: the pass that finds nothing; the call returns
TwoOptReturn ==
    /\ pc = "twoOpt"
    /\ Improving(order, distMatrix, people, constantPairs) = {}
    /\ pc' = "enforce"
    /\ UNCHANGED <<people, aliased, progress, statistics, distance,
                   attempts, distanceFunction, optimizationMode, constantPairs,
                   distMatrix, attempt, order, route0, bestOverallOrder,
                   bestOverallScore, history, result, tableSizes, tables, pairNo>>

\* line 461: the array itself is returned when no pair is registered (line 365),
\* a changed copy of it otherwise (line 367)
Enforce ==
    /\ pc = "enforce"
    /\ order' = enforceConstantPairs(order, constantPairs)
    /\ aliased' = IF Len(constantPairs) = 0 THEN aliased ELSE FALSE
    /\ pc' = "score"
    /\ UNCHANGED <<people, progress, statistics, distance,
                   attempts, distanceFunction, optimizationMode, constantPairs,
                   distMatrix, attempt, route0, bestOverallOrder, bestOverallScore,
                   history, result, tableSizes, tables, pairNo>>

\* lines 463-475: score the attempt and keep it if it is better
ScoreAttempt ==
    /\ pc = "score"
    /\ ~ScoringThrows(order, people, optimizationMode)
    /\ LET score == ScoreOf(order, people, distMatrix, optimizationMode)
       IN  /\ bestOverallScore' =
                IF Improves(score, bestOverallScore) THEN score ELSE bestOverallScore
           /\ bestOverallOrder' = KeptOrder(score, order, bestOverallScore, bestOverallOrder)
           /\ history' = Append(history, [score |-> score, order |-> order])
           /\ progress' = IF Improves(score, bestOverallScore)
                          THEN Append(progress, onProgressCall(attempt, score))
                          ELSE progress
           /\ aliased' = IF Improves(score, bestOverallScore) THEN TRUE ELSE aliased
    /\ attempt' = attempt + 1
    /\ pc' = "attempt"
    /\ UNCHANGED <<people, statistics, distance,
                   attempts, distanceFunction, optimizationMode, constantPairs,
                   distMatrix, order, route0, result, tableSizes, tables, pairNo>>

\* countPoorConnections reads `.themes` of undefined: the call ends with a TypeError
ScoreThrows ==
    /\ pc = "score"
    /\ ScoringThrows(order, people, optimizationMode)
    /\ pc' = "TypeError"
    /\ UNCHANGED <<people, aliased, progress, statistics, distance,
                   attempts, distanceFunction, optimizationMode, constantPairs,
                   distMatrix, attempt, order, route0, bestOverallOrder,
                   bestOverallScore, history, result, tableSizes, tables, pairNo>>

\* lines 477-486: final enforcement and return
Return ==
    /\ pc = "attempt"
    /\ attempt >= attempts
    /\ bestOverallOrder' =
          IF bestOverallOrder # NullOrder
          THEN enforceConstantPairs(bestOverallOrder, constantPairs)
          ELSE bestOverallOrder
    /\ result' = [order |-> bestOverallOrder', score |-> bestOverallScore]
    /\ aliased' = IF bestOverallOrder # NullOrder /\ Len(constantPairs) # 0
                  THEN FALSE ELSE aliased
    /\ pc' = "returned"
    /\ UNCHANGED <<people, progress, statistics, distance,
                   attempts, distanceFunction, optimizationMode, constantPairs,
                   distMatrix, attempt, order, route0, bestOverallScore, history,
                   tableSizes, tables, pairNo>>

Next == Construct \/ TwoOptSwap \/ TwoOptReturn \/ Enforce \/ ScoreAttempt
        \/ ScoreThrows \/ Return

Spec == Init /\ [][Next]_vars

-----------------------------------------------------------------------------
(* Table assignment mapper.  A seat holds a participant index or Null. *)

\* Reverse that leaves the right side in route order
NotReversed(s) == s

\* rightSeats.reverse()
Reverse(s) == [k \in 1..Len(s) |-> s[Len(s) + 1 - k]]

\* seatsPerSide with Math.floor for Math.ceil
seatsPerSideFloor(seatsPerTable) == seatsPerTable \div 2

\* Math.ceil(seatsPerTable / 2)
seatsPerSide(seatsPerTable) == (seatsPerTable + 1) \div 2

\* lines 500-521: the tables from tableIdx on, the route being consumed from personIdx
RECURSIVE SnakeFrom(_, _, _, _)
SnakeFrom(ord, sizes, tableIdx, personIdx) ==
    IF tableIdx >= Len(sizes) THEN << >>
    ELSE LET side == seatsPerSide(At(sizes, tableIdx))
             nLeft == Min(side, Len(ord) - personIdx)
             leftSeats == SubSeq(ord, personIdx + 1, personIdx + nLeft)
             nRight == Min(side, Len(ord) - (personIdx + nLeft))
             rightSeats == SubSeq(ord, personIdx + nLeft + 1, personIdx + nLeft + nRight)
         IN  << leftSeats \o Reverse(rightSeats) >>
             \o SnakeFrom(ord, sizes, tableIdx + 1, personIdx + nLeft + nRight)

\* nameToPerson.get(name): the last participant of that name, or Undefined
NameToPerson(ppl, name) ==
    IF \E i \in DOMAIN ppl : ppl[i].name = name
    THEN CHOOSE i \in DOMAIN ppl :
            ppl[i].name = name /\ \A l \in DOMAIN ppl : ppl[l].name = name => l <= i
    ELSE Undefined

\* the seats holding a participant of that name, as <<table, seat>>, 0-based
SeatsOf(tbls, ppl, name) ==
    UNION { { <<t, x>> : x \in { y \in 0..(Len(At(tbls, t)) - 1) :
                                    /\ At(At(tbls, t), y) # Null
                                    /\ ppl[At(At(tbls, t), y)].name = name } } :
            t \in 0..(Len(tbls) - 1) }

\* lines 600-615: the last such seat in scan order, or <<-1, -1>>
Locate(tbls, ppl, name) ==
    LET S == SeatsOf(tbls, ppl, name)
    IN  IF S = {} THEN << 0 - 1, 0 - 1 >>
        ELSE CHOOSE c \in S : \A d \in S : d[1] < c[1] \/ (d[1] = c[1] /\ d[2] <= c[2])

findAdjacentSeat(seats, seatIdx) ==
    LET n == Len(seats)
        prevIdx == IF seatIdx > 0 THEN seatIdx - 1 ELSE n - 1
        nextIdx == IF seatIdx < n - 1 THEN seatIdx + 1 ELSE 0
    IN  IF n = 0 THEN 0 - 1
        ELSE IF At(seats, prevIdx) = Null THEN prevIdx
        ELSE IF At(seats, nextIdx) = Null THEN nextIdx
        ELSE 0 - 1

SetSeat(seats, p, x) == [seats EXCEPT ![p + 1] = x]
SetTable(tbls, t, seats) == [tbls EXCEPT ![t + 1] = seats]

\* RemoveFirstNull that leaves the null in place
KeepNulls(seats) == seats

\* RemoveFirstNull that removes the first seat of the list instead of the null
RemoveFirstSeat(seats) ==
    LET nullIdx == IndexOf(seats, Null)
    IN  IF nullIdx # 0 - 1 THEN RemoveAt(seats, 0) ELSE seats

\* seats.splice(seats.indexOf(null), 1) when there is a null
RemoveFirstNull(seats) ==
    LET nullIdx == IndexOf(seats, Null)
    IN  IF nullIdx # 0 - 1 THEN RemoveAt(seats, nullIdx) ELSE seats

\* insertPos one seat too far
insertPosTooFar(seat1Idx) == seat1Idx + 2

\* where a moved person2 is put next to person1 on a table without a free
\* neighbouring seat: `const insertPos = seat1Idx + 1`
insertPos(seat1Idx) == seat1Idx + 1

\* lines 623-646: person2 sits on another table and is moved to table1.
\* The result is the tables and the new seat of person2.
MoveToTable(tbls, person2, table1Idx, seat1Idx, table2Idx, seat2Idx) ==
    LET removed == SetTable(tbls, table2Idx, SetSeat(At(tbls, table2Idx), seat2Idx, Null))
        table1 == At(removed, table1Idx)
        adjacentSeat == findAdjacentSeat(table1, seat1Idx)
    IN  IF adjacentSeat # 0 - 1
        THEN [tables |-> SetTable(removed, table1Idx, SetSeat(table1, adjacentSeat, person2)),
              seat2Idx |-> adjacentSeat]
        ELSE LET inserted == SetTable(removed, table1Idx,
                                InsertAt(table1, insertPos(seat1Idx), person2))
             IN  [tables |-> SetTable(inserted, table2Idx,
                                RemoveFirstNull(At(inserted, table2Idx))),
                  seat2Idx |-> insertPos(seat1Idx)]

\* lines 648-674: both sit on table1; person2 is re-seated when not adjacent
MakeAdjacent(tbls, person2, table1Idx, seat1Idx, seat2Idx) ==
    LET table == At(tbls, table1Idx)
    IN  IF areNeighbors(seat1Idx, seat2Idx, Len(table)) THEN tbls
        ELSE LET removed == SetSeat(table, seat2Idx, Null)
                 adjacentSeat == findAdjacentSeat(removed, seat1Idx)
             IN  IF adjacentSeat # 0 - 1
                 THEN SetTable(tbls, table1Idx, SetSeat(removed, adjacentSeat, person2))
                 ELSE SetTable(tbls, table1Idx,
                        RemoveFirstNull(InsertAt(removed, insertPos(seat1Idx), person2)))

\* lines 593-675: the loop body for one declared pair
RepairPair(tbls, ppl, name1, name2) ==
    LET person1 == NameToPerson(ppl, name1)
        person2 == NameToPerson(ppl, name2)
        loc1 == Locate(tbls, ppl, name1)
        loc2 == Locate(tbls, ppl, name2)
    IN  IF person1 = Undefined \/ person2 = Undefined THEN tbls
        ELSE IF loc1[1] = 0 - 1 \/ loc2[1] = 0 - 1 THEN tbls
        ELSE IF loc1[1] # loc2[1]
             THEN LET moved == MoveToTable(tbls, person2, loc1[1], loc1[2], loc2[1], loc2[2])
                  IN  MakeAdjacent(moved.tables, person2, loc1[1], loc1[2], moved.seat2Idx)
             ELSE MakeAdjacent(tbls, person2, loc1[1], loc1[2], loc2[2])

\* lines 677-682: pop trailing nulls
RECURSIVE StripTrailing(_)
StripTrailing(seats) ==
    IF Len(seats) > 0 /\ seats[Len(seats)] = Null
    THEN StripTrailing(SubSeq(seats, 1, Len(seats) - 1))
    ELSE seats

-----------------------------------------------------------------------------
(* Statistics calculator.  commonThemes is kept as the set the source builds *)
(* before it spreads it into an array; combinedSimilarity is the string of   *)
(* toFixed(2) read as a number of hundredths.                                *)

\* previousNeighbor that wraps from the first seat to the last
previousNeighborRing(seats, seatIdx) ==
    IF seatIdx > 0 THEN At(seats, seatIdx - 1) ELSE At(seats, Len(seats) - 1)

\* `seatIdx > 0 && table.seats[seatIdx - 1]`: the occupant compared with, or Null
previousNeighbor(seats, seatIdx) ==
    IF seatIdx > 0 THEN At(seats, seatIdx - 1) ELSE Null

\* `seatIdx < table.seats.length - 1 && table.seats[seatIdx + 1]`
nextNeighbor(seats, seatIdx) ==
    IF seatIdx < Len(seats) - 1 THEN At(seats, seatIdx + 1) ELSE Null

\* (num / den).toFixed(2) in hundredths: the nearest hundredth, the larger of two
toFixed2(num, den) == ((200 * num) + den) \div (2 * den)

\* the record pushed for the occupant of seat seatIdx
SeatStatistics(ppl, seats, tableIdx, seatIdx) ==
    LET person == ppl[At(seats, seatIdx)]
        prev == previousNeighbor(seats, seatIdx)
        next == nextNeighbor(seats, seatIdx)
        previousThemes == IF prev # Null THEN person.themes \cap ppl[prev].themes ELSE {}
        nextThemes == IF next # Null THEN person.themes \cap ppl[next].themes ELSE {}
        previousSimilarity ==
            IF prev # Null THEN commonalityDistance(person.themes, ppl[prev].themes) ELSE 0
        nextSimilarity ==
            IF next # Null THEN commonalityDistance(person.themes, ppl[next].themes) ELSE 0
        commonThemes == previousThemes \cup nextThemes
    IN  [name |-> person.name,
         commonThemes |-> commonThemes,
         combinedSimilarity |->
            IF seatIdx = 0 THEN toFixed2(nextSimilarity, Scale)
            ELSE IF seatIdx = Len(seats) - 1 THEN toFixed2(previousSimilarity, Scale)
            ELSE toFixed2(previousSimilarity + nextSimilarity, 2 * Scale),
         hasCommon |-> Cardinality(commonThemes) > 0,
         tableNumber |-> tableIdx + 1,
         position |-> seatIdx + 1]

\* the two forEach loops, from seat seatIdx of table tableIdx on
RECURSIVE StatisticsFrom(_, _, _, _)
StatisticsFrom(tbls, ppl, tableIdx, seatIdx) ==
    IF tableIdx >= Len(tbls) THEN << >>
    ELSE IF seatIdx >= Len(At(tbls, tableIdx)) THEN StatisticsFrom(tbls, ppl, tableIdx + 1, 0)
    ELSE IF At(At(tbls, tableIdx), seatIdx) = Null
         THEN StatisticsFrom(tbls, ppl, tableIdx, seatIdx + 1)
    ELSE << SeatStatistics(ppl, At(tbls, tableIdx), tableIdx, seatIdx) >>
         \o StatisticsFrom(tbls, ppl, tableIdx, seatIdx + 1)

calculateStatistics(tbls, ppl) == StatisticsFrom(tbls, ppl, 0, 0)

-----------------------------------------------------------------------------
(* assignToTables.  validateConstantPairs (line 527) only writes to the      *)
(* console and changes nothing.                                              *)

\* the name lists of length n in which the declared pairs in `present` come first,
\* in declaration order, followed by guests
TableRoster(n, present) ==
    LET named == IF present = {} THEN << >>
                 ELSE IF present = {1} THEN CONSTANT_PAIRS_NAMES[1]
                 ELSE IF present = {2} THEN CONSTANT_PAIRS_NAMES[2]
                 ELSE CONSTANT_PAIRS_NAMES[1] \o CONSTANT_PAIRS_NAMES[2]
    IN  [i \in 0..(n - 1) |->
            [name |-> IF i < Len(named) THEN named[i + 1] ELSE GuestNames[i + 1],
             themes |-> {}]]

TablePeople(n) ==
    { TableRoster(n, present) :
        present \in { q \in SUBSET (1..Len(CONSTANT_PAIRS_NAMES)) : 2 * Cardinality(q) <= n } }

TableSizeLists ==
    UNION { [1..k -> 1..MaxTableSize] : k \in 1..MaxTables }

\* any seating result (a route over the participants) and any table sizes
InitTables ==
    /\ \E n \in 0..MaxGuests : people \in TablePeople(n) /\ order \in Routes(n)
    /\ tableSizes \in TableSizeLists
    /\ attempts = 0
    /\ distanceFunction = "commonality"
    /\ optimizationMode = "poor_connections"
    /\ constantPairs = findConstantPairs(people)
    /\ distMatrix = << >>
    /\ attempt = 0
    /\ route0 = << >>
    /\ bestOverallOrder = NullOrder
    /\ bestOverallScore = Infinity
    /\ history = << >>
    /\ result = [order |-> order, score |-> 0]
    /\ tables = << >>
    /\ pairNo = 0
    /\ progress = << >>
    /\ statistics = << >>
    /\ distance = NoCall
    /\ aliased = FALSE
    /\ pc = "place"

\* lines 494-521: snake placement
Place ==
    /\ pc = "place"
    /\ tables' = SnakeFrom(order, tableSizes, 0, 0)
    /\ pairNo' = 1
    /\ pc' = "repair"
    /\ UNCHANGED <<people, aliased, progress, statistics, distance,
                   attempts, distanceFunction, optimizationMode, constantPairs,
                   distMatrix, attempt, order, route0, bestOverallOrder,
                   bestOverallScore, history, result, tableSizes>>

\* line 586: with no registered pair enforceConstantPairsOnTables returns at once;
\* lines 530-532: the statistics are calculated and the assignment is returned
RepairNothing ==
    /\ pc = "repair"
    /\ Len(constantPairs) = 0
    /\ statistics' = calculateStatistics(tables, people)
    /\ pc' = "assigned"
    /\ UNCHANGED <<people, aliased, progress, distance,
                   attempts, distanceFunction, optimizationMode, constantPairs,
                   distMatrix, attempt, order, route0, bestOverallOrder,
                   bestOverallScore, history, result, tableSizes, tables, pairNo>>

\* lines 593-675: one iteration of the loop over CONSTANT_PAIRS_NAMES
RepairNext ==
    /\ pc = "repair"
    /\ Len(constantPairs) # 0
    /\ pairNo <= Len(CONSTANT_PAIRS_NAMES)
    /\ tables' = RepairPair(tables, people, CONSTANT_PAIRS_NAMES[pairNo][1],
                            CONSTANT_PAIRS_NAMES[pairNo][2])
    /\ pairNo' = pairNo + 1
    /\ UNCHANGED <<people, aliased, progress, statistics, distance,
                   attempts, distanceFunction, optimizationMode, constantPairs,
                   distMatrix, attempt, order, route0, bestOverallOrder,
                   bestOverallScore, history, result, tableSizes, pc>>

\* lines 677-682: the trailing nulls are popped; lines 530-532: the statistics
\* are calculated and the assignment is returned
StripAndReturn ==
    /\ pc = "repair"
    /\ Len(constantPairs) # 0
    /\ pairNo > Len(CONSTANT_PAIRS_NAMES)
    /\ tables' = [t \in 1..Len(tables) |-> StripTrailing(tables[t])]
    /\ statistics' = calculateStatistics(tables', people)
    /\ pc' = "assigned"
    /\ UNCHANGED <<people, aliased, progress, distance,
                   attempts, distanceFunction, optimizationMode, constantPairs,
                   distMatrix, attempt, order, route0, bestOverallOrder,
                   bestOverallScore, history, result, tableSizes, pairNo>>

NextTables == Place \/ RepairNothing \/ RepairNext \/ StripAndReturn

SpecTables == InitTables /\ [][NextTables]_vars

-----------------------------------------------------------------------------
(* assignToTables for participants with themes *)

\* the participant lists of TablePeople with every choice of theme sets
ThemedTablePeople(n) ==
    { [i \in 0..(n - 1) |-> [name |-> ppl[i].name, themes |-> themes[i]]] :
        ppl \in TablePeople(n), themes \in [0..(n - 1) -> ThemeSets] }

InitThemedTables ==
    /\ \E n \in 0..MaxN : people \in ThemedTablePeople(n) /\ order \in Routes(n)
    /\ tableSizes \in TableSizeLists
    /\ attempts = 0
    /\ distanceFunction = "commonality"
    /\ optimizationMode = "poor_connections"
    /\ constantPairs = findConstantPairs(people)
    /\ distMatrix = << >>
    /\ attempt = 0
    /\ route0 = << >>
    /\ bestOverallOrder = NullOrder
    /\ bestOverallScore = Infinity
    /\ history = << >>
    /\ result = [order |-> order, score |-> 0]
    /\ tables = << >>
    /\ pairNo = 0
    /\ progress = << >>
    /\ statistics = << >>
    /\ distance = NoCall
    /\ aliased = FALSE
    /\ pc = "place"

SpecThemedTables == InitThemedTables /\ [][NextTables]_vars

-----------------------------------------------------------------------------
(* twoOpt on its own: any route over any participant list *)

\* a call of twoOpt on participants whose theme sets are drawn from themeSets
TwoOptCalledWith(themeSets) ==
    /\ \E n \in 0..MaxGuests :
          /\ \E present \in { q \in SUBSET (1..Len(CONSTANT_PAIRS_NAMES)) :
                                2 * Cardinality(q) <= n } :
             \E themes \in [0..(n - 1) -> themeSets] :
                people = [i \in 0..(n - 1) |->
                            [name |-> TableRoster(n, present)[i].name, themes |-> themes[i]]]
          /\ order \in Routes(n)
    /\ distanceFunction \in {"commonality", "avg_distance"}
    /\ optimizationMode = "distance"
    /\ attempts = 0
    /\ constantPairs = findConstantPairs(people)
    /\ distMatrix = createDistanceMatrix(people, distanceFunction, constantPairs)
    /\ attempt = 0
    /\ route0 = order
    /\ bestOverallOrder = NullOrder
    /\ bestOverallScore = Infinity
    /\ history = << >>
    /\ result = [order |-> NullOrder, score |-> Infinity]
    /\ tableSizes = << >>
    /\ tables = << >>
    /\ pairNo = 0
    /\ progress = << >>
    /\ statistics = << >>
    /\ distance = NoCall
    /\ aliased = FALSE
    /\ pc = "twoOpt"

InitTwoOpt == TwoOptCalledWith(ThemeSets)

NextTwoOpt == TwoOptSwap \/ TwoOptReturn

SpecTwoOpt == InitTwoOpt /\ [][NextTwoOpt]_vars

\* the calls of twoOpt in which every participant has no theme or the same two
TwoThemeSets == { {}, {1, 2} }
InitTwoOptFair == TwoOptCalledWith(TwoThemeSets)

\* the while loop of twoOpt keeps running: a call that can take a step takes one
SpecTwoOptFair == InitTwoOptFair /\ [][NextTwoOpt]_vars /\ WF_vars(NextTwoOpt)

-----------------------------------------------------------------------------
(* The set-up of optimizeSeating on its own (lines 449-452): the registry and *)
(* the matrix of any participant list with unique names, the lists in which a *)
(* declared pair is present with one name only included                       *)

AllPeopleLists(n) ==
    { [i \in 0..(n - 1) |-> [name |-> names[i], themes |-> themes[i]]] :
        names \in AllRosters(n), themes \in [0..(n - 1) -> ThemeSets] }

InitSetup ==
    /\ \E n \in 0..MaxN : people \in AllPeopleLists(n)
    /\ attempts \in 1..MaxAttempts
    /\ distanceFunction \in {"commonality", "avg_distance"}
    /\ optimizationMode = "poor_connections"
    /\ constantPairs = << >>
    /\ distMatrix = << >>
    /\ attempt = 0
    /\ order = << >>
    /\ route0 = << >>
    /\ bestOverallOrder = NullOrder
    /\ bestOverallScore = Infinity
    /\ history = << >>
    /\ result = [order |-> NullOrder, score |-> Infinity]
    /\ tableSizes = << >>
    /\ tables = << >>
    /\ pairNo = 0
    /\ progress = << >>
    /\ statistics = << >>
    /\ distance = NoCall
    /\ aliased = FALSE
    /\ pc = "findConstantPairs"

\* line 451
FindConstantPairs ==
    /\ pc = "findConstantPairs"
    /\ constantPairs' = findConstantPairs(people)
    /\ pc' = "createDistanceMatrix"
    /\ UNCHANGED <<people, aliased, progress, statistics, distance,
                   attempts, distanceFunction, optimizationMode, distMatrix, attempt,
                   order, route0, bestOverallOrder, bestOverallScore, history, result,
                   tableSizes, tables, pairNo>>

\* line 452
CreateDistanceMatrix ==
    /\ pc = "createDistanceMatrix"
    /\ distMatrix' = createDistanceMatrix(people, distanceFunction, constantPairs)
    /\ pc' = "attempt"
    /\ UNCHANGED <<people, aliased, progress, statistics, distance,
                   attempts, distanceFunction, optimizationMode, constantPairs, attempt,
                   order, route0, bestOverallOrder, bestOverallScore, history, result,
                   tableSizes, tables, pairNo>>

NextSetup == FindConstantPairs \/ CreateDistanceMatrix

SpecSetup == InitSetup /\ [][NextSetup]_vars

-----------------------------------------------------------------------------
(* The two distance functions on their own: any two theme sets, called in   *)
(* either argument order                                                     *)

Themes == 1..MaxThemes

InitDistance ==
    /\ people \in [0..1 -> [name : {"Guest 0"}, themes : SUBSET Themes]]
    /\ attempts = 0
    /\ distanceFunction \in {"commonality", "avg_distance"}
    /\ optimizationMode = "poor_connections"
    /\ constantPairs = << >>
    /\ distMatrix = << >>
    /\ attempt = 0
    /\ order = << >>
    /\ route0 = << >>
    /\ bestOverallOrder = NullOrder
    /\ bestOverallScore = Infinity
    /\ history = << >>
    /\ result = [order |-> NullOrder, score |-> Infinity]
    /\ tableSizes = << >>
    /\ tables = << >>
    /\ pairNo = 0
    /\ progress = << >>
    /\ statistics = << >>
    /\ distance = NoCall
    /\ aliased = FALSE
    /\ pc = "distance"

CallCommonalityDistance ==
    /\ pc = "distance"
    /\ distanceFunction = "commonality"
    /\ \E i, j \in DOMAIN people :
          distance' = [func |-> "commonality", a |-> people[i].themes, b |-> people[j].themes,
                       d |-> commonalityDistance(people[i].themes, people[j].themes)]
    /\ UNCHANGED <<people, aliased, progress, statistics,
                   attempts, distanceFunction, optimizationMode, constantPairs, distMatrix,
                   attempt, order, route0, bestOverallOrder, bestOverallScore, history,
                   result, tableSizes, tables, pairNo, pc>>

CallAvgDistance ==
    /\ pc = "distance"
    /\ distanceFunction = "avg_distance"
    /\ \E i, j \in DOMAIN people :
          distance' = [func |-> "avg_distance", a |-> people[i].themes, b |-> people[j].themes,
                       d |-> avgDistance(people[i].themes, people[j].themes)]
    /\ UNCHANGED <<people, aliased, progress, statistics,
                   attempts, distanceFunction, optimizationMode, constantPairs, distMatrix,
                   attempt, order, route0, bestOverallOrder, bestOverallScore, history,
                   result, tableSizes, tables, pairNo, pc>>

NextDistance == CallCommonalityDistance \/ CallAvgDistance

SpecDistance == InitDistance /\ [][NextDistance]_vars

-----------------------------------------------------------------------------
(* The scoring of an attempt (lines 463-465) on its own, in poor-connections *)
(* mode: any route over any participant list                                 *)

\* theme sets with which two neighbours can each share at most two themes
\* with a participant and more than two together
ScoreThemeSets == { {}, {1, 2}, {3}, {1, 2, 3} }

InitScore ==
    /\ \E n \in 0..MaxN :
          /\ \E themes \in [0..(n - 1) -> ScoreThemeSets] :
                people = [i \in 0..(n - 1) |->
                            [name |-> GuestNames[i + 1], themes |-> themes[i]]]
          /\ order \in Routes(n)
    /\ attempts = 1
    /\ distanceFunction = "commonality"
    /\ optimizationMode = "poor_connections"
    /\ constantPairs = findConstantPairs(people)
    /\ distMatrix = createDistanceMatrix(people, distanceFunction, constantPairs)
    /\ attempt = 0
    /\ route0 = order
    /\ bestOverallOrder = NullOrder
    /\ bestOverallScore = Infinity
    /\ history = << >>
    /\ result = [order |-> NullOrder, score |-> Infinity]
    /\ tableSizes = << >>
    /\ tables = << >>
    /\ pairNo = 0
    /\ progress = << >>
    /\ statistics = << >>
    /\ distance = NoCall
    /\ aliased = FALSE
    /\ pc = "score"

NextScore == ScoreAttempt

SpecScore == InitScore /\ [][NextScore]_vars

-----------------------------------------------------------------------------
(* nearestNeighborWithCommonThemes on its own, one pass of its while loop at *)
(* a time: any symmetric matrix with a zero diagonal, entries that are not   *)
(* finite included, any themes and any start index.  pc is the branch that   *)
(* set `next` in the last pass.                                              *)

\* the entries of a matrix: equal, as far apart as can be, and not finite
DistValues == { 0, Scale, Infinity }

\* theme sets in which sharing a theme is not transitive
ConstructThemeSets == { {1}, {2}, {1, 2} }

\* the index pairs i < j of a matrix over n participants
UpperPairs(n) == { q \in (0..(n - 1)) \X (0..(n - 1)) : q[1] < q[2] }

ConstructLabels == { "start", "pair", "common", "nearest", "fallback" }

InitConstruct ==
    /\ \E n \in 1..MaxRoute :
          /\ \E present \in { q \in SUBSET (1..Len(CONSTANT_PAIRS_NAMES)) :
                                2 * Cardinality(q) <= n } :
             \E themes \in [0..(n - 1) -> ConstructThemeSets] :
                people = [i \in 0..(n - 1) |->
                            [name |-> TableRoster(n, present)[i].name, themes |-> themes[i]]]
          /\ \E upper \in [UpperPairs(n) -> DistValues] :
                distMatrix = [i \in 0..(n - 1) |-> [j \in 0..(n - 1) |->
                                IF i = j THEN 0
                                ELSE IF i < j THEN upper[<< i, j >>] ELSE upper[<< j, i >>]]]
          /\ \E startIdx \in 0..(n - 1) : order = << startIdx >>
    /\ attempts = 0
    /\ distanceFunction = "commonality"
    /\ optimizationMode = "distance"
    /\ constantPairs = findConstantPairs(people)
    /\ attempt = 0
    /\ route0 = << >>
    /\ bestOverallOrder = NullOrder
    /\ bestOverallScore = Infinity
    /\ history = << >>
    /\ result = [order |-> NullOrder, score |-> Infinity]
    /\ tableSizes = << >>
    /\ tables = << >>
    /\ pairNo = 0
    /\ progress = << >>
    /\ statistics = << >>
    /\ distance = NoCall
    /\ aliased = FALSE
    /\ pc = "start"

\* lines 213-259: one pass of the while loop
AppendNext ==
    /\ pc \in ConstructLabels
    /\ Len(order) < Cardinality(DOMAIN distMatrix)
    /\ LET choice == NextChoice(distMatrix, people, constantPairs, Range(order),
                                order[Len(order)])
       IN  IF choice.next = 0 - 1
           THEN order' = order /\ pc' = "constructed"
           ELSE order' = Append(order, choice.next) /\ pc' = choice.rule
    /\ UNCHANGED <<people, aliased, progress, statistics, distance,
                   attempts, distanceFunction, optimizationMode, constantPairs,
                   distMatrix, attempt, route0, bestOverallOrder, bestOverallScore,
                   history, result, tableSizes, tables, pairNo>>

\* line 213 with `route.length < n` false, line 261
ConstructReturn ==
    /\ pc \in ConstructLabels
    /\ Len(order) >= Cardinality(DOMAIN distMatrix)
    /\ pc' = "constructed"
    /\ UNCHANGED <<people, aliased, progress, statistics, distance,
                   attempts, distanceFunction, optimizationMode, constantPairs,
                   distMatrix, attempt, order, route0, bestOverallOrder,
                   bestOverallScore, history, result, tableSizes, tables, pairNo>>

NextConstruct == AppendNext \/ ConstructReturn

SpecConstruct == InitConstruct /\ [][NextConstruct]_vars

-----------------------------------------------------------------------------
(* Properties: vocabulary *)

\* s lists every index 0..n-1 exactly once
IsPermutation(s, n) ==
    /\ Len(s) = n
    /\ Range(s) = 0..(n - 1)
    /\ \A a, b \in 1..Len(s) : a # b => s[a] # s[b]

RECURSIVE SumFrom(_, _)
SumFrom(sizes, k) == IF k > Len(sizes) THEN 0 ELSE sizes[k] + SumFrom(sizes, k + 1)
\* the declared capacity: the sum of the table sizes
Capacity == SumFrom(tableSizes, 1)

\* the seats <<table, seat>> (1-based) of the assignment that hold x
SeatsHolding(tbls, x) ==
    UNION { { <<t, k>> : k \in { l \in 1..Len(tbls[t]) : tbls[t][l] = x } } :
            t \in 1..Len(tbls) }

EmptySeats(tbls) == Cardinality(SeatsHolding(tbls, Null))

\* two seat indices of a seat list of length n are next to each other on the ring
RingAdjacent(a, b, n) ==
    \/ a - b = 1
    \/ b - a = 1
    \/ (a = 1 /\ b = n)
    \/ (b = 1 /\ a = n)

\* both names of declared pair k resolve to a participant
Resolved(k) ==
    /\ \E i \in DOMAIN people : people[i].name = CONSTANT_PAIRS_NAMES[k][1]
    /\ \E i \in DOMAIN people : people[i].name = CONSTANT_PAIRS_NAMES[k][2]

\* the members of declared pair k sit on one table of tbls, on ring-adjacent seats
SeatedTogether(tbls, k) ==
    \E i, j \in DOMAIN people :
        /\ people[i].name = CONSTANT_PAIRS_NAMES[k][1]
        /\ people[j].name = CONSTANT_PAIRS_NAMES[k][2]
        /\ \E a \in SeatsHolding(tbls, i), b \in SeatsHolding(tbls, j) :
              a[1] = b[1] /\ RingAdjacent(a[2], b[2], Len(tbls[a[1]]))

\* x and y occupy neighbouring positions of the route: positions that differ
\* by 1, or the first and the last position
NeighboursIn(route, x, y) ==
    \E a, b \in 1..Len(route) :
        /\ route[a] = x
        /\ route[b] = y
        /\ (a - b = 1 \/ b - a = 1 \/ (a = 1 /\ b = Len(route)) \/ (b = 1 /\ a = Len(route)))

\* the members of declared pair k occupy neighbouring positions of the route
PairNeighboursIn(route, k) ==
    \E i, j \in DOMAIN people :
        /\ people[i].name = CONSTANT_PAIRS_NAMES[k][1]
        /\ people[j].name = CONSTANT_PAIRS_NAMES[k][2]
        /\ NeighboursIn(route, i, j)

\* the tables as the snake placement left them, before any repair
Placed == SnakeFrom(order, tableSizes, 0, 0)

\* the lowest score among the finished attempts, and the first attempt that reached it
LowestScore == CHOOSE x \in { history[k].score : k \in 1..Len(history) } :
                  \A k \in 1..Len(history) : x <= history[k].score
FirstLowest == CHOOSE k \in 1..Len(history) :
                  /\ history[k].score = LowestScore
                  /\ \A l \in 1..(k - 1) : history[l].score # LowestScore

-----------------------------------------------------------------------------
(* Properties of optimizeSeating *)

\* C1: for a non-empty participant list the returned order is a permutation of
\* 0..n-1: length n, no duplicates, no omissions.
C1_OrderIsPermutation ==
    (pc = "returned" /\ NumPeople(people) >= 1)
        => IsPermutation(result.order, NumPeople(people))

\* a run of two attempts over four participants with both pairs registered that
\* returned, its two attempts having produced different routes
C1_Witness ==
    /\ pc = "returned"
    /\ NumPeople(people) = 4
    /\ Len(constantPairs) = 4
    /\ Len(history) = 2
    /\ history[1].order # history[2].order

\* C4: the returned score is the minimum of the scores of all attempts, and the
\* returned order is that of the earliest attempt that reached it.
C4_BestIsMinimumEarliest ==
    pc = "returned" =>
        /\ \A k \in 1..Len(history) : result.score <= history[k].score
        /\ result.score = LowestScore
        /\ result.order = history[FirstLowest].order

\* a returned run whose two attempts tie on the score with different routes
C4_Witness ==
    /\ pc = "returned"
    /\ Len(history) = 2
    /\ history[1].score = history[2].score
    /\ history[1].order # history[2].order

\* C5: the returned score is the active mode's score of the returned order, and
\* the final enforceConstantPairs leaves the best order as it was.
C5_ResultSelfConsistent ==
    /\ pc = "returned" =>
          result.score = (IF optimizationMode = "distance"
                          THEN calculateTotalCost(result.order, distMatrix)
                          ELSE countPoorConnections(result.order, people))
    /\ (pc = "attempt" /\ bestOverallOrder # NullOrder) =>
          enforceConstantPairs(bestOverallOrder, constantPairs) = bestOverallOrder

\* a returned run with a registered pair whose second attempt scored worse than
\* its first, so that the best order is not the last one built
C5_Witness ==
    /\ pc = "returned"
    /\ Len(constantPairs) > 0
    /\ Len(history) = 2
    /\ history[2].score > history[1].score
    /\ result.order # history[2].order

\* C11: in the returned route every declared pair whose names both resolve
\* occupies neighbouring positions (differing by 1, or first and last).
C11_PairsNeighboursInResult ==
    pc = "returned" =>
        \A k \in 1..Len(CONSTANT_PAIRS_NAMES) :
            Resolved(k) => PairNeighboursIn(result.order, k)

\* a returned run with a resolved pair whose last attempt had a segment
\* reversed by twoOpt
C11_Witness ==
    /\ pc = "returned"
    /\ \E k \in 1..Len(CONSTANT_PAIRS_NAMES) : Resolved(k)
    /\ order # route0
    /\ result.order = order

\* attempt k (numbered from 1) scored strictly below every earlier attempt
StrictlyBest(k) == \A l \in 1..(k - 1) : history[k].score < history[l].score

\* C16: onProgress is called at attempt k exactly when attempt k scores
\* strictly below every earlier attempt, with (k, that score): it is called at
\* attempt 1, the reported attempts increase, the reported scores decrease, and
\* the last reported score is the returned score.
C16_ProgressOnImprovement ==
    /\ \A k \in 1..Len(history) :
          StrictlyBest(k) <=> << k, history[k].score >> \in Range(progress)
    /\ \A e \in 1..Len(progress) :
          /\ progress[e][1] \in 1..Len(history)
          /\ progress[e][2] = history[progress[e][1]].score
          /\ StrictlyBest(progress[e][1])
    /\ Len(history) >= 1 => (Len(progress) >= 1 /\ progress[1][1] = 1)
    /\ \A e \in 1..(Len(progress) - 1) :
          /\ progress[e][1] < progress[e + 1][1]
          /\ progress[e][2] > progress[e + 1][2]
    /\ pc = "returned" =>
          (Len(progress) >= 1 /\ progress[Len(progress)][2] = result.score)

\* a returned run of two attempts, the second of which improved on the first
C16_Witness ==
    /\ pc = "returned"
    /\ Len(history) = 2
    /\ Len(progress) = 2

\* C10: with an empty participant list optimizeSeating returns no result.
C10_EmptyListReturnsNothing ==
    NumPeople(people) = 0 => pc # "returned"

\* C30: attempts do not interfere.  No step changes the participant list, the
\* registry or the distance matrix; the route an attempt constructs, reverses
\* and enforces is held in an array that is not the one recorded as best so
\* far; and the order recorded as best so far is changed by no construction,
\* 2-opt reversal or pair enforcement of a later attempt.
C30_AttemptsDoNotInterfere ==
    /\ [][people' = people /\ distMatrix' = distMatrix /\ constantPairs' = constantPairs]_vars
    /\ [](pc \in {"twoOpt", "enforce"} => ~aliased)
    /\ [][(pc \in {"twoOpt", "enforce"} \/ (pc = "attempt" /\ attempt < attempts))
            => bestOverallOrder' = bestOverallOrder]_vars

\* the second attempt, with a pair registered, has had a segment reversed by
\* twoOpt and holds a route other than the one recorded as best so far
C30_Witness ==
    /\ pc = "enforce"
    /\ attempt = 1
    /\ Len(constantPairs) > 0
    /\ bestOverallOrder # NullOrder
    /\ order # route0
    /\ order # bestOverallOrder

-----------------------------------------------------------------------------
(* Properties of the distance functions.  A returned value d stands for     *)
(* d / Scale.                                                                *)

\* C14: commonalityDistance(A, B) = commonalityDistance(B, A)
\* = (4 - min(|A \cap B|, 4)) / 4, one of 0, 1/4, 1/2, 3/4, 1; it is 1 exactly
\* when the sets share no theme and 0 exactly when they share four or more.
C14_CommonalityDistance ==
    distance.func = "commonality" =>
        LET shared == Cardinality(distance.a \cap distance.b)
        IN  /\ 4 * distance.d = (4 - (IF shared < 4 THEN shared ELSE 4)) * Scale
            /\ distance.d = commonalityDistance(distance.b, distance.a)
            /\ \E q \in 0..4 : 4 * distance.d = q * Scale
            /\ distance.d = Scale <=> shared = 0
            /\ distance.d = 0 <=> shared >= 4

\* commonalityDistance was called on two sets that share more than four themes
C14_Witness ==
    /\ distance.func = "commonality"
    /\ Cardinality(distance.a \cap distance.b) > 4

\* C15: avgDistance returns 1 when both sets are empty and 1 - |A \cap B| / |A \cup B|
\* otherwise; it is 1 whenever the sets share no theme, and 0 only when the
\* sets are equal and non-empty.
C15_AvgDistance ==
    distance.func = "avg_distance" =>
        LET inter == Cardinality(distance.a \cap distance.b)
            union == Cardinality(distance.a \cup distance.b)
        IN  /\ union = 0 => distance.d = Scale
            /\ union # 0 => distance.d * union = (Scale * union) - (Scale * inter)
            /\ inter = 0 => distance.d = Scale
            /\ distance.d = 0 => (distance.a = distance.b /\ distance.a # {})

\* avgDistance was called on two empty sets
C15_Witness ==
    /\ distance.func = "avg_distance"
    /\ distance.a = {}
    /\ distance.b = {}

-----------------------------------------------------------------------------
(* Properties of the registry and the matrix *)

\* the index pairs <<i, j>> whose names are the two names of a declared pair,
\* in either order
DeclaredIndexPairs ==
    { q \in (DOMAIN people) \X (DOMAIN people) :
        \E k \in 1..Len(CONSTANT_PAIRS_NAMES) :
            \/ /\ people[q[1]].name = CONSTANT_PAIRS_NAMES[k][1]
               /\ people[q[2]].name = CONSTANT_PAIRS_NAMES[k][2]
            \/ /\ people[q[1]].name = CONSTANT_PAIRS_NAMES[k][2]
               /\ people[q[2]].name = CONSTANT_PAIRS_NAMES[k][1] }

\* a name of a declared pair is present while the other name of that pair is not
LoneMember ==
    \E k \in 1..Len(CONSTANT_PAIRS_NAMES) :
        /\ ~Resolved(k)
        /\ \E i \in DOMAIN people :
              people[i].name \in { CONSTANT_PAIRS_NAMES[k][1], CONSTANT_PAIRS_NAMES[k][2] }

\* C12: the registry holds i -> j and j -> i for every declared pair whose two
\* names resolve, and nothing else; it is symmetric and gives every index at
\* most one partner; a pair with a missing name adds nothing.
C12_RegistryExact ==
    pc # "findConstantPairs" =>
        /\ Range(constantPairs) = DeclaredIndexPairs
        /\ \A e \in 1..Len(constantPairs) :
              MapGet(constantPairs, constantPairs[e][2]) = constantPairs[e][1]
        /\ \A e, f \in 1..Len(constantPairs) :
              constantPairs[e][1] = constantPairs[f][1] => e = f

\* the registry was built for a list in which one declared pair resolves and
\* the other is present with one name only
C12_Witness ==
    /\ pc = "createDistanceMatrix"
    /\ Len(constantPairs) = 2
    /\ LoneMember

\* C13: the matrix is symmetric with a zero diagonal and entries in [0, 1]; the
\* entry of a resolved declared pair is 0, and every other off-diagonal entry
\* is the selected distance function of the two theme sets.
C13_MatrixShape ==
    pc = "attempt" =>
        /\ DOMAIN distMatrix = DOMAIN people
        /\ \A i, j \in DOMAIN people :
              /\ distMatrix[i][j] = distMatrix[j][i]
              /\ distMatrix[i][j] >= 0
              /\ distMatrix[i][j] <= Scale
              /\ i = j => distMatrix[i][j] = 0
              /\ << i, j >> \in DeclaredIndexPairs => distMatrix[i][j] = 0
              /\ (i # j /\ << i, j >> \notin DeclaredIndexPairs) =>
                    distMatrix[i][j] =
                        (IF distanceFunction = "commonality"
                         THEN commonalityDistance(people[i].themes, people[j].themes)
                         ELSE avgDistance(people[i].themes, people[j].themes))

\* the matrix of a list with a resolved pair whose members share no theme, and
\* with two other participants at a distance strictly between 0 and 1
C13_Witness ==
    /\ pc = "attempt"
    /\ \E q \in DeclaredIndexPairs : people[q[1]].themes \cap people[q[2]].themes = {}
    /\ \E i, j \in DOMAIN people :
          /\ << i, j >> \notin DeclaredIndexPairs
          /\ distMatrix[i][j] > 0
          /\ distMatrix[i][j] < Scale

-----------------------------------------------------------------------------
(* Properties of countPoorConnections *)

\* the themes the participant at position p of the route (1-based) shares with
\* the one at position q; none when the route has no position q
SharedAt(route, p, q) ==
    IF q >= 1 /\ q <= Len(route)
    THEN people[route[p]].themes \cap people[route[q]].themes
    ELSE {}

\* the positions whose participant shares at most two distinct themes with
\* its previous and its next route member together
PoorPositions(route) ==
    { p \in 1..Len(route) :
        Cardinality(SharedAt(route, p, p - 1) \cup SharedAt(route, p, p + 1)) <= 2 }

\* C25: countPoorConnections is the number of route positions whose participant
\* has at most 2 distinct themes in the union of those shared with the previous
\* and those shared with the next route member, the first and the last position
\* having one neighbour only; it lies between 0 and n, and is 1 for a route of one.
C25_CountPoorConnections ==
    optimizationMode = "poor_connections" =>
        \A e \in 1..Len(history) :
            /\ history[e].score = Cardinality(PoorPositions(history[e].order))
            /\ history[e].score >= 0
            /\ history[e].score <= Len(history[e].order)
            /\ Len(history[e].order) = 1 => history[e].score = 1

\* a scored route with a participant in the middle that shares at most two
\* themes with each neighbour and three with both together, and so is not
\* counted, while the first participant is counted
C25_Witness ==
    /\ Len(history) = 1
    /\ optimizationMode = "poor_connections"
    /\ \E p \in 2..(Len(order) - 1) :
          /\ Cardinality(SharedAt(order, p, p - 1)) <= 2
          /\ Cardinality(SharedAt(order, p, p + 1)) <= 2
          /\ p \notin PoorPositions(order)
    /\ 1 \in PoorPositions(order)
    /\ history[1].order = order
    /\ history[1].score < Len(order)

-----------------------------------------------------------------------------
(* Properties of nearestNeighborWithCommonThemes *)

\* the participant last appended to the route being built
Current(route) == route[Len(route)]

\* the participants not yet in the route
Unvisited(route) == DOMAIN people \ Range(route)

\* the unvisited partner of the current participant, if it has one
UnvisitedPartner(route) ==
    { j \in Unvisited(route) : << Current(route), j >> \in DeclaredIndexPairs }

\* every entry of the matrix is a finite number
FiniteMatrix == \A i, j \in DOMAIN distMatrix : distMatrix[i][j] < Infinity

\* j is the lowest-index participant of minimum distance to the current one within pool
LowestNearest(route, pool, j) ==
    /\ j \in pool
    /\ \A l \in pool :
          \/ distMatrix[Current(route)][j] < distMatrix[Current(route)][l]
          \/ (distMatrix[Current(route)][j] = distMatrix[Current(route)][l] /\ j <= l)

\* the unvisited participants that share a theme with the current one
Sharing(route) ==
    { j \in Unvisited(route) : people[j].themes \cap people[Current(route)].themes # {} }

\* C22: in the constructed route the members of every resolved declared pair
\* occupy two consecutive positions; whenever the current participant has an
\* unvisited partner, the next pass appends that partner, whatever the
\* distances and the themes are.
C22_ConstructorKeepsPairsConsecutive ==
    /\ [](pc = "constructed" =>
            \A q \in DeclaredIndexPairs :
                \E a, b \in 1..Len(order) :
                    order[a] = q[1] /\ order[b] = q[2] /\ (a - b = 1 \/ b - a = 1))
    /\ [][\A j \in UnvisitedPartner(order) : order' = Append(order, j)]_vars

\* a constructed route in which a partner was appended right after its pair
\* member although it shares no theme with it and a participant that does share
\* one, and is strictly nearer, was still unvisited
C22_Witness ==
    /\ pc = "constructed"
    /\ \E a \in 1..(Len(order) - 1) : \E b \in (a + 2)..Len(order) :
          /\ << order[a], order[a + 1] >> \in DeclaredIndexPairs
          /\ people[order[a]].themes \cap people[order[a + 1]].themes = {}
          /\ people[order[a]].themes \cap people[order[b]].themes # {}
          /\ distMatrix[order[a]][order[b]] < distMatrix[order[a]][order[a + 1]]

\* C23: with finite distances, a pass in which the current participant has no
\* unvisited partner appends the lowest-index participant of minimum distance
\* among the unvisited ones that share a theme with the current one, and, only
\* if none shares a theme, the lowest-index one of minimum distance among all
\* unvisited participants.
C23_ConstructorPriorities ==
    [][(FiniteMatrix /\ order' # order /\ UnvisitedPartner(order) = {}) =>
          /\ Len(order') = Len(order) + 1
          /\ SubSeq(order', 1, Len(order)) = order
          /\ IF Sharing(order) # {}
             THEN LowestNearest(order, Sharing(order), Current(order'))
             ELSE LowestNearest(order, Unvisited(order), Current(order'))]_vars

\* the first pass appended a participant that shares a theme with the start
\* participant, although another sharing one with a higher index is as near
\* and one that shares no theme is strictly nearer
C23_Witness ==
    /\ pc = "common"
    /\ FiniteMatrix
    /\ Len(order) = 2
    /\ \E j, l \in DOMAIN people \ Range(order) :
          /\ j > order[2]
          /\ people[j].themes \cap people[order[1]].themes # {}
          /\ distMatrix[order[1]][j] = distMatrix[order[1]][order[2]]
          /\ people[l].themes \cap people[order[1]].themes = {}
          /\ distMatrix[order[1]][l] < distMatrix[order[1]][order[2]]

\* C24: with finite distances no pass takes the fallback that picks any
\* unvisited participant, and the constructor returns a route of length n.
C24_FallbackNeverTaken ==
    FiniteMatrix =>
        /\ pc # "fallback"
        /\ pc = "constructed" => Len(order) = NumPeople(people)

\* the last of four participants was appended by the third rule: it shares no
\* theme with the current one and lies at the largest finite distance from it
C24_Witness ==
    /\ FiniteMatrix
    /\ pc = "nearest"
    /\ Len(order) = 4
    /\ NumPeople(people) = 4
    /\ distMatrix[order[3]][order[4]] = Scale

-----------------------------------------------------------------------------
(* Properties of twoOpt *)

\* C6: every reversal twoOpt performs strictly lowers the path cost, and the
\* route it returns costs no more than the route it was given.
C6_TwoOptMonotonic ==
    /\ [](pc = "enforce" =>
            calculateTotalCost(order, distMatrix) <= calculateTotalCost(route0, distMatrix))
    /\ [][order' # order =>
            calculateTotalCost(order', distMatrix) < calculateTotalCost(order, distMatrix)]_vars

\* declared pair k resolves and its members are neighbours in the route
PinnedNeighbours(route, k) == Resolved(k) /\ PairNeighboursIn(route, k)

\* the members of declared pair k that lie at positions i..j (0-based) of the route
MembersInside(route, k, i, j) ==
    { p \in i..j : people[At(route, p)].name
                      \in { CONSTANT_PAIRS_NAMES[k][1], CONSTANT_PAIRS_NAMES[k][2] } }

\* C19: twoOpt never breaks a pinned pair.  A pair that is neighbouring when
\* twoOpt is called is neighbouring when it returns, and after every reversal
\* in between; a candidate [i..j] holding exactly one member of a neighbouring
\* pair is not accepted, and one holding both leaves them at positions that
\* differ by 1.
C19_TwoOptKeepsPairs ==
    /\ [](pc = "enforce" =>
            \A k \in 1..Len(CONSTANT_PAIRS_NAMES) :
                PinnedNeighbours(route0, k) => PinnedNeighbours(order, k))
    /\ [][\A k \in 1..Len(CONSTANT_PAIRS_NAMES) :
                PinnedNeighbours(order, k) => PinnedNeighbours(order', k)]_vars
    /\ [](pc = "twoOpt" =>
            \A c \in CutPoints(Len(order)) : \A k \in 1..Len(CONSTANT_PAIRS_NAMES) :
                PinnedNeighbours(order, k) =>
                    LET inside == MembersInside(order, k, c[1], c[2])
                    IN  /\ Cardinality(inside) = 1 =>
                              c \notin Improving(order, distMatrix, people, constantPairs)
                        /\ Cardinality(inside) = 2 =>
                              \E p, q \in MembersInside(ReverseSegment(order, c[1], c[2]),
                                                         k, c[1], c[2]) : p - q = 1)

\* twoOpt has returned a route with a neighbouring pinned pair in which a
\* candidate that would lower the cost is barred only because it would part
\* that pair
C19_Witness ==
    /\ pc = "enforce"
    /\ \E k \in 1..Len(CONSTANT_PAIRS_NAMES) : PinnedNeighbours(route0, k)
    /\ \E c \in CutPoints(Len(order)) :
          /\ wouldBreakConstantPair(order, c[1], c[2], constantPairs)
          /\ AcceptsSwap(order, distMatrix, people, << >>, c[1], c[2])

\* C20: twoOpt terminates: every call returns after finitely many reversals,
\* and it returns exactly at a scan of all cut points that accepts nothing.
C20_TwoOptTerminates ==
    /\ <>(pc = "enforce")
    /\ [][(pc = "twoOpt" /\ Improving(order, distMatrix, people, constantPairs) = {})
            => (pc' = "enforce" /\ order' = order)]_vars
    /\ [][(pc = "twoOpt" /\ pc' = "enforce")
            => Improving(order, distMatrix, people, constantPairs) = {}]_vars

\* twoOpt has returned after more than one reversal: the returned route is
\* neither the input route nor one reversal away from it
C20_Witness ==
    /\ pc = "enforce"
    /\ order # route0
    /\ \A c \in CutPoints(Len(route0)) : order # ReverseSegment(route0, c[1], c[2])

\* twoOpt has returned a route that differs from the one it was given, with a
\* pair registered
C6_Witness ==
    /\ pc = "enforce"
    /\ order # route0
    /\ Len(constantPairs) > 0

\* the route with positions i..j (0-based) in reverse order
Reversal(route, i, j) ==
    [p \in 1..Len(route) |-> IF p >= i + 1 /\ p <= j + 1 THEN route[(i + j + 2) - p] ELSE route[p]]

\* reversing positions i..j parts no declared pair that is neighbouring in the route
PartsNoPair(route, i, j) ==
    \A k \in 1..Len(CONSTANT_PAIRS_NAMES) :
        PinnedNeighbours(route, k) => PinnedNeighbours(Reversal(route, i, j), k)

\* the two boundary edges of the candidate (i, j) before and after the reversal
BoundaryBefore(route, i, j) ==
    distMatrix[At(route, i - 1)][At(route, i)] + distMatrix[At(route, j)][At(route, j + 1)]
BoundaryAfter(route, i, j) ==
    distMatrix[At(route, i - 1)][At(route, j)] + distMatrix[At(route, i)][At(route, j + 1)]

\* half a distance unit for each new boundary pair that shares no theme
BoundaryPenalty(route, i, j) ==
    (Scale \div 2) *
        Cardinality({ e \in { << At(route, i - 1), At(route, j) >>,
                              << At(route, i), At(route, j + 1) >> } :
                        people[e[1]].themes \cap people[e[2]].themes = {} })

\* the candidate (i, j) satisfies the acceptance rule of twoOpt
Acceptable(route, i, j) ==
    /\ PartsNoPair(route, i, j)
    /\ BoundaryAfter(route, i, j) + BoundaryPenalty(route, i, j) < BoundaryBefore(route, i, j)

\* C21: the route twoOpt returns is a local optimum of its acceptance rule: no
\* cut points 1 <= i < j <= n - 2 part no pinned pair and have
\* after + penalty < before; and every reversal twoOpt performs is one of a
\* candidate for which that strict inequality holds.
C21_TwoOptLocalOptimum ==
    /\ [](pc = "enforce" =>
            \A i, j \in 1..(Len(order) - 2) : i < j => ~Acceptable(order, i, j))
    /\ [][order' # order =>
            \E i, j \in 1..(Len(order) - 2) :
                /\ i < j
                /\ order' = Reversal(order, i, j)
                /\ BoundaryAfter(order, i, j) + BoundaryPenalty(order, i, j)
                      < BoundaryBefore(order, i, j)]_vars

\* twoOpt has returned after a reversal, and in the returned route a candidate
\* that parts no pair lowers the boundary distance but not by more than its penalty
C21_Witness ==
    /\ pc = "enforce"
    /\ order # route0
    /\ \E i, j \in 1..(Len(order) - 2) :
          /\ i < j
          /\ PartsNoPair(order, i, j)
          /\ BoundaryAfter(order, i, j) < BoundaryBefore(order, i, j)
          /\ BoundaryAfter(order, i, j) + BoundaryPenalty(order, i, j)
                >= BoundaryBefore(order, i, j)

-----------------------------------------------------------------------------
(* Properties of assignToTables *)

\* C2: with enough capacity, every declared pair whose names both resolve ends
\* on one table, on ring-adjacent seats.
C2_PairsSeatedTogether ==
    (pc = "assigned" /\ Capacity >= NumPeople(people)) =>
        \A k \in 1..Len(CONSTANT_PAIRS_NAMES) : Resolved(k) => SeatedTogether(tables, k)

\* both pairs were apart after placement, and all four members end on one table
C2_Witness ==
    /\ pc = "assigned"
    /\ Capacity >= NumPeople(people)
    /\ Resolved(1) /\ Resolved(2)
    /\ ~SeatedTogether(Placed, 1)
    /\ ~SeatedTogether(Placed, 2)
    /\ \E t \in 1..Len(tables) :
          \A i \in 0..3 : \E k \in 1..Len(tables[t]) : tables[t][k] = i

\* C3: with enough capacity, every participant of the route occupies exactly
\* one seat of the final assignment.
C3_EveryoneSeatedOnce ==
    (pc = "assigned" /\ Capacity >= NumPeople(people)) =>
        \A i \in DOMAIN people : Cardinality(SeatsHolding(tables, i)) = 1

\* a repair moved somebody: the final tables differ from the placement
C3_Witness ==
    /\ pc = "assigned"
    /\ Capacity >= NumPeople(people)
    /\ NumPeople(people) >= 4
    /\ tables # Placed

\* the themes the occupant of seat k of table t (1-based) shares with the
\* occupant of seat l of that table; none when there is no such seat or it is empty
SharedWith(t, k, l) ==
    IF l >= 1 /\ l <= Len(tables[t]) /\ tables[t][l] # Null
    THEN people[tables[t][k]].themes \cap people[tables[t][l]].themes
    ELSE {}

\* the statistics records for seat k of table t
RecordsOf(t, k) ==
    { e \in 1..Len(statistics) :
        statistics[e].tableNumber = t /\ statistics[e].position = k }

\* C17: every seated participant has one statistics record; its commonThemes
\* are the themes shared with the occupants of the previous and of the next
\* seat index of the same table, the first and the last seat not being
\* compared with each other; hasCommon says that commonThemes is not empty; a
\* participant without themes has no common themes.
C17_StatisticsStraightLine ==
    pc = "assigned" =>
        /\ Len(statistics) = Cardinality(UNION { SeatsHolding(tables, i) : i \in DOMAIN people })
        /\ \A t \in 1..Len(tables) : \A k \in 1..Len(tables[t]) :
              tables[t][k] # Null =>
                /\ Cardinality(RecordsOf(t, k)) = 1
                /\ \A e \in RecordsOf(t, k) :
                      /\ statistics[e].name = people[tables[t][k]].name
                      /\ statistics[e].commonThemes =
                            SharedWith(t, k, k - 1) \cup SharedWith(t, k, k + 1)
                      /\ statistics[e].hasCommon <=> statistics[e].commonThemes # {}
                      /\ people[tables[t][k]].themes = {} =>
                            (statistics[e].commonThemes = {} /\ ~statistics[e].hasCommon)

\* on a table of three or more seats the first occupant shares themes with
\* the last one and none with the second, and is reported without common themes
C17_Witness ==
    /\ pc = "assigned"
    /\ \E t \in 1..Len(tables) :
          /\ Len(tables[t]) >= 3
          /\ SharedWith(t, 1, Len(tables[t])) # {}
          /\ SharedWith(t, 1, 2) = {}
          /\ \E e \in RecordsOf(t, 1) : ~statistics[e].hasCommon

\* the snake placement has just been made: no pair has been repaired yet
JustPlaced == pc = "repair" /\ pairNo = 1

\* the number of seats on the tables before table t (1-based)
RECURSIVE SeatsBefore(_, _)
SeatsBefore(tbls, t) == IF t <= 1 THEN 0 ELSE Len(tbls[t - 1]) + SeatsBefore(tbls, t - 1)

\* the seats of one side of table t: half its declared size, rounded up
SideOf(t) == (tableSizes[t] + 1) \div 2

\* the lengths of the left and of the right block of table t, the route
\* being consumed from entry `from` (0-based) on
LeftBlock(t, from) == Min(SideOf(t), Len(order) - from)
RightBlock(t, from) == Min(SideOf(t), Len(order) - (from + LeftBlock(t, from)))

\* C26: the snake placement consumes the route front to back, table by table
\* in list order: the seat list of a table is the next block of route entries
\* in route order (left side) followed by the block after it in reverse route
\* order (right side); no route entry is skipped or used twice.
C26_SnakePlacement ==
    JustPlaced =>
        /\ Len(tables) = Len(tableSizes)
        /\ \A t \in 1..Len(tables) :
              LET from == SeatsBefore(tables, t)
                  left == LeftBlock(t, from)
                  right == RightBlock(t, from)
              IN  /\ Len(tables[t]) = left + right
                  /\ \A k \in 1..left : tables[t][k] = order[from + k]
                  /\ \A k \in 1..right :
                        tables[t][(left + right + 1) - k] = order[from + left + k]
        /\ \A a \in 1..Len(order) :
              Cardinality(SeatsHolding(tables, order[a])) =
                  (IF a <= SeatsBefore(tables, Len(tables) + 1) THEN 1 ELSE 0)

\* the first of two tables was filled with a right side of two participants,
\* and the route went on into the second table
C26_Witness ==
    /\ JustPlaced
    /\ Len(tables) = 2
    /\ RightBlock(1, 0) >= 2
    /\ Len(tables[2]) >= 1

\* x and y occupy two consecutive positions of the route
ConsecutiveIn(route, x, y) ==
    \E a, b \in 1..Len(route) :
        route[a] = x /\ route[b] = y /\ (a - b = 1 \/ b - a = 1)

\* C27: after the snake placement, before any pair repair, two participants at
\* consecutive seat indices of one table are consecutive in the route.
C27_SeatNeighboursAreRouteNeighbours ==
    JustPlaced =>
        \A t \in 1..Len(tables) : \A k \in 1..(Len(tables[t]) - 1) :
            ConsecutiveIn(order, tables[t][k], tables[t][k + 1])

\* the participant named second in declared pair k, or -1
SecondMember(k) ==
    IF \E i \in DOMAIN people : people[i].name = CONSTANT_PAIRS_NAMES[k][2]
    THEN CHOOSE i \in DOMAIN people : people[i].name = CONSTANT_PAIRS_NAMES[k][2]
    ELSE 0 - 1

\* the table (1-based) of tbls that seats x, or 0
TableOf(tbls, x) ==
    IF SeatsHolding(tbls, x) = {} THEN 0
    ELSE (CHOOSE c \in SeatsHolding(tbls, x) : TRUE)[1]

\* C28: when enforceConstantPairsOnTables has finished, no seat list ends with
\* an empty seat and none has an empty seat in its interior.
C28_NoGapsAfterRepair ==
    pc = "assigned" =>
        \A t \in 1..Len(tables) :
            /\ Len(tables[t]) > 0 => tables[t][Len(tables[t])] # Null
            /\ \A k \in 1..(Len(tables[t]) - 1) : tables[t][k] # Null

\* the second member of a pair was placed on a seat that was not the last of
\* its table, with its partner on the other table, and has been moved there
C28_Witness ==
    /\ pc = "assigned"
    /\ \E k \in 1..Len(CONSTANT_PAIRS_NAMES) :
          /\ Resolved(k)
          /\ \E c \in SeatsHolding(Placed, SecondMember(k)) :
                /\ c[2] < Len(Placed[c[1]])
                /\ TableOf(tables, SecondMember(k)) # c[1]
                /\ Len(tables[c[1]]) = Len(Placed[c[1]]) - 1

\* the participants of a seat list other than x, in seat order
Others(seats, x) == SelectSeq(seats, LAMBDA y : y # x /\ y # Null)

\* the participant the repair is about to look at: the second member of the
\* pair whose turn it is, or -1 when every pair has had its turn
MemberInTurn ==
    IF pairNo >= 1 /\ pairNo <= Len(CONSTANT_PAIRS_NAMES) THEN SecondMember(pairNo) ELSE 0 - 1

\* the participants named second in a declared pair
SecondMembers == { SecondMember(k) : k \in 1..Len(CONSTANT_PAIRS_NAMES) }

\* C29: pair repair moves only the second-named member of the pair it looks
\* at: on every table the other participants are the same, in the same
\* relative order, before and after each step of the repair; a pair that is
\* already on one table on ring-adjacent seats causes no change at all; and in
\* the final assignment every participant that is no second member is on the
\* table it was placed on.
C29_RepairMovesSecondMemberOnly ==
    /\ [][pc = "repair" =>
            /\ Len(tables') = Len(tables)
            /\ \A t \in 1..Len(tables) :
                  Others(tables'[t], MemberInTurn) = Others(tables[t], MemberInTurn)
            /\ \A k \in 1..Len(CONSTANT_PAIRS_NAMES) :
                  (pairNo = k /\ Resolved(k) /\ SeatedTogether(tables, k))
                      => tables' = tables]_vars
    /\ [](pc = "assigned" =>
            \A x \in DOMAIN people \ SecondMembers :
                TableOf(tables, x) = TableOf(Placed, x))

\* the first pair has had its turn: its second member was moved to the other
\* table, in front of a participant already seated there, and left a
\* participant behind on the table it came from
C29_Witness ==
    /\ pc = "repair"
    /\ pairNo = 2
    /\ Resolved(1)
    /\ TableOf(Placed, SecondMember(1)) # 0
    /\ TableOf(tables, SecondMember(1)) # TableOf(Placed, SecondMember(1))
    /\ Others(tables[TableOf(Placed, SecondMember(1))], SecondMember(1)) # << >>
    /\ \E c \in SeatsHolding(tables, SecondMember(1)) : c[2] < Len(tables[c[1]])

\* the number of participants seated on table t (1-based)
SeatedOn(tbls, t) == Cardinality({ k \in 1..Len(tbls[t]) : tbls[t][k] # Null })

\* C18: in the final assignment no table seats more participants than its
\* declared size tableSizes[t].
C18_NoTableOverDeclaredSize ==
    pc = "assigned" =>
        \A t \in 1..Len(tables) : SeatedOn(tables, t) <= tableSizes[t]

\* C7: with more capacity than participants the final assignment has exactly
\* (capacity - participants) empty seats.
C7_SurplusSeatsAreEmpty ==
    (pc = "assigned" /\ Capacity > NumPeople(people)) =>
        EmptySeats(tables) = Capacity - NumPeople(people)

\* C8: with capacity equal to the participant count no seat of the final
\* assignment is empty.
C8_NoEmptySeatWhenFull ==
    (pc = "assigned" /\ Capacity = NumPeople(people)) => EmptySeats(tables) = 0

\* capacity equals the participant count and a pair member was moved to
\* another table
C8_Witness ==
    /\ pc = "assigned"
    /\ Capacity = NumPeople(people)
    /\ Resolved(1)
    /\ \E t \in 1..Len(tables) : Len(tables[t]) # Len(Placed[t])

\* C9: with less capacity than participants assignToTables does not return, and
\* an assignment it returns seats every participant of the route.
C9_ShortCapacityRejected ==
    pc = "assigned" =>
        /\ Capacity >= NumPeople(people)
        /\ \A i \in DOMAIN people : SeatsHolding(tables, i) # {}

====
